---- MODULE Spec2Model ----
(***************************************************************************)
(* Model of the Thrive Teams scheduling backend (server.js): the booked-   *)
(* slot store (MongoDB collection with in-memory fallback), the time       *)
(* normaliser convertTo24Hour, and the handlers schedule-discovery-call,   *)
(* check-availability and available-slots.                                 *)
(*                                                                         *)
(* Strings are sequences of one-character strings, so that split, includes, *)
(* parseInt, toString and padStart are computed as the code computes them.  *)
(* A calendar date is a day number counted from the epoch day (day 0 is    *)
(* Friday 2025-09-05)  ; an instant is a number of minutes since 00:00 UTC *)
(* of the epoch day.                                                       *)
(***************************************************************************)
EXTENDS Integers, Sequences, FiniteSets, Bags, TLC

VARIABLES
    tz,                    \* UTC offset of the server's local time zone, minutes
    env,                   \* process.env: Azure credentials, ADMIN_EMAIL
    conn,                  \* progress of connectToMongoDB
    bookedSlotsCollection, \* TRUE once the module variable holds the collection
    uniqueIndex,           \* the unique index on (date, time) exists in MongoDB
    mongoDocs,             \* documents of the bookedSlots collection (a bag of <<date, time>>)
    globalBookedSlots,     \* global.bookedSlots: undefined, or a Map date -> Set of times
    req,                   \* schedule-discovery-call requests in flight or answered
    resp                   \* the last response of a query handler

vars == <<tz, env, conn, bookedSlotsCollection, uniqueIndex, mongoDocs,
          globalBookedSlots, req, resp>>

-----------------------------------------------------------------------------
(* Bounds of the model *)

MaxDate == 3     \* dates 1..MaxDate: Sat 2025-09-06, Sun 09-07, Mon 09-08
MaxReq == 2      \* schedule-discovery-call requests in one behaviour
MaxTick == 2     \* evaluation instants: Mon 00:00 UTC, then every 300 minutes
MaxCopies == 2   \* documents of one (date, time) pair a direct insert may pile up

(* Program constants *)

OpenHour == 9            \* first business hour
CloseHour == 18          \* business hours end (exclusive)
SlotMinutes == 30        \* slot granularity
NoidaOffset == 330       \* Asia/Kolkata, UTC+05:30, in minutes
EpochDayOfWeek == 5      \* getDay() of day 0 (Friday)

Dates == 1..MaxDate
Reqs == 1..MaxReq
\* Monday 2025-09-08 00:00 UTC
FirstNow == 3 * 1440
Nows == {FirstNow + 300 * k : k \in 0..MaxTick}
TzOffsets == {0, NoidaOffset, 540}

-----------------------------------------------------------------------------
(* JavaScript string primitives *)

Digits == <<"0", "1", "2", "3", "4", "5", "6", "7", "8", "9">>

IsDigit(c) == \E i \in 1..10 : Digits[i] = c

DigitVal(c) == (CHOOSE i \in 1..10 : Digits[i] = c) - 1

\* Number.prototype.toString for a non-negative integer
RECURSIVE NumToString(_)
NumToString(n) ==
    IF n < 10 THEN <<Digits[n + 1]>>
    ELSE NumToString(n \div 10) \o <<Digits[(n % 10) + 1]>>

\* String.prototype.padStart(2, '0')
RECURSIVE padStart2(_)
padStart2(s) == IF Len(s) >= 2 THEN s ELSE padStart2(<<"0">> \o s)

\* parseInt(s, 10): the value of the leading digits of s (-1 stands for NaN)
RECURSIVE ParseDigits(_, _)
ParseDigits(s, acc) ==
    IF s = <<>> \/ ~IsDigit(Head(s)) THEN acc
    ELSE ParseDigits(Tail(s), 10 * acc + DigitVal(Head(s)))

parseInt(s) == IF s = <<>> \/ ~IsDigit(Head(s)) THEN -1 ELSE ParseDigits(s, 0)

\* String.prototype.includes
includes(s, sub) ==
    \E i \in 1..(Len(s) - Len(sub) + 1) : SubSeq(s, i, i + Len(sub) - 1) = sub

\* String.prototype.split on a one-character separator
RECURSIVE SplitFrom(_, _, _)
SplitFrom(s, sep, cur) ==
    IF s = <<>> THEN <<cur>>
    ELSE IF Head(s) = sep THEN <<cur>> \o SplitFrom(Tail(s), sep, <<>>)
    ELSE SplitFrom(Tail(s), sep, Append(cur, Head(s)))

split(s, sep) == SplitFrom(s, sep, <<>>)

\* destructuring [a, b] = arr: a missing element is undefined
Undefined == <<"undefined">>
Elem(arr, i) == IF i <= Len(arr) THEN arr[i] ELSE Undefined

-----------------------------------------------------------------------------
(* Time Normalizer *)

convertTo24HourNoNoonRule(timeInput) ==
    IF ~includes(timeInput, <<"A", "M">>) /\ ~includes(timeInput, <<"P", "M">>)
    THEN timeInput
    ELSE LET parts == split(timeInput, " ")
             modifier == Elem(parts, 2)
             hm == split(Elem(parts, 1), ":")
             hours == Elem(hm, 1)
             minutes == Elem(hm, 2)
             hoursStr == IF modifier = <<"P", "M">>
                         THEN padStart2(NumToString(parseInt(hours) + 12))
                         ELSE padStart2(hours)
         IN  hoursStr \o <<":">> \o minutes

convertTo24Hour(timeInput) ==
    IF ~includes(timeInput, <<"A", "M">>) /\ ~includes(timeInput, <<"P", "M">>)
    THEN timeInput
    ELSE LET parts == split(timeInput, " ")
             modifier == Elem(parts, 2)
             hm == split(Elem(parts, 1), ":")
             hours0 == Elem(hm, 1)
             minutes == Elem(hm, 2)
             hours == IF hours0 = <<"1", "2">> THEN <<"0", "0">> ELSE hours0
             hoursStr == IF modifier = <<"P", "M">>
                         THEN padStart2(NumToString(parseInt(hours) + 12))
                         ELSE padStart2(hours)
         IN  hoursStr \o <<":">> \o minutes

\* formatTimeForEmail: the 12-hour form "H:MM AM|PM" of a 24-hour time
formatTimeForEmail(time24h) ==
    LET hm == split(time24h, ":")
        hours == parseInt(Elem(hm, 1))
        minutes == Elem(hm, 2)
        hour12 == IF hours % 12 = 0 THEN 12 ELSE hours % 12
        ampm == IF hours >= 12 THEN <<"P", "M">> ELSE <<"A", "M">>
    IN  NumToString(hour12) \o <<":">> \o minutes \o <<" ">> \o ampm

\* `${hour.toString().padStart(2, '0')}:${minute.toString().padStart(2, '0')}`
slotTimeOf(hour, minute) ==
    padStart2(NumToString(hour)) \o <<":">> \o padStart2(NumToString(minute))

-----------------------------------------------------------------------------
(* JavaScript Date, for date d (a day number) and a time "HH:MM" *)

MinutesOfDay(time24h) ==
    LET hm == split(time24h, ":")
    IN  60 * parseInt(Elem(hm, 1)) + parseInt(Elem(hm, 2))

\* new Date(`${date}T${time24h}:00`): no offset, so the server's local time
LocalDate(date, time24h) == 1440 * date + MinutesOfDay(time24h) - tz

\* the same text parsed without the offset +05:30
NoidaDateNoOffset(date, time24h) == 1440 * date + MinutesOfDay(time24h) - tz

\* new Date(`${date}T${time24h}:00+05:30`)
NoidaDate(date, time24h) == 1440 * date + MinutesOfDay(time24h) - NoidaOffset

\* Date.prototype.getDay and getHours read the instant in local time
getDay(instant) == (((instant + tz) \div 1440) + EpochDayOfWeek) % 7

getHours(instant) == ((instant + tz) % 1440) \div 60

\* new Date(d.toLocaleString("en-US", {timeZone: 'Asia/Kolkata'})): the wall
\* clock of Asia/Kolkata at instant d, read back as a local time
toNoidaWallClock(instant) == (instant + NoidaOffset) - tz

Midnight == <<"0", "0", ":", "0", "0">>

-----------------------------------------------------------------------------
(* Slot Store *)

NoMap == [defined |-> FALSE, map |-> [d \in {} |-> {}]]

MapHas(date, time) ==
    /\ globalBookedSlots.defined
    /\ date \in DOMAIN globalBookedSlots.map
    /\ time \in globalBookedSlots.map[date]

MongoHas(date, time) == BagIn(<<date, time>>, mongoDocs)

\* if (!global.bookedSlots) global.bookedSlots = new Map()
MapEnsured ==
    IF globalBookedSlots.defined THEN globalBookedSlots
    ELSE [defined |-> TRUE, map |-> [d \in {} |-> {}]]

\* the in-memory branch of addBookedSlot
MapAdd(date, time) ==
    LET m == MapEnsured.map
    IN  [defined |-> TRUE,
         map |-> [d \in DOMAIN m \cup {date} |->
                    (IF d \in DOMAIN m THEN m[d] ELSE {})
                      \cup (IF d = date THEN {time} ELSE {})]]

\* insertOne on the collection: a duplicate key is refused only by the unique
\* index; a refused or failed insert throws and stores nothing
InsertThrows(date, time, mongoOk) ==
    ~mongoOk \/ (uniqueIndex /\ MongoHas(date, time))

MongoInsert(date, time, mongoOk) ==
    IF InsertThrows(date, time, mongoOk) THEN mongoDocs
    ELSE mongoDocs (+) SetToBag({<<date, time>>})

\* isSlotBooked: the collection when it is set (false when findOne throws),
\* else the in-memory map
isSlotBooked(date, time, mongoOk) ==
    IF bookedSlotsCollection THEN mongoOk /\ MongoHas(date, time)
    ELSE MapHas(date, time)

\* getBookedSlots: the time of every document of the date, or the times of
\* the in-memory Set; [] when find throws. The array is kept as a bag of
\* times, its order left out
getBookedSlots(date, mongoOk) ==
    IF bookedSlotsCollection
    THEN IF mongoOk
         THEN [t \in {p[2] : p \in {q \in BagToSet(mongoDocs) : q[1] = date}} |->
                  CopiesIn(<<date, t>>, mongoDocs)]
         ELSE EmptyBag
    ELSE IF globalBookedSlots.defined /\ date \in DOMAIN globalBookedSlots.map
         THEN SetToBag(globalBookedSlots.map[date])
         ELSE EmptyBag

\* every time stored for some date
StoredTimes ==
    {p[2] : p \in BagToSet(mongoDocs)}
    \cup UNION {globalBookedSlots.map[d] : d \in DOMAIN globalBookedSlots.map}

\* deleteOne on the collection removes one matching document; when it throws
\* removeBookedSlot catches the error and nothing is removed
MongoDelete(date, time, mongoOk) ==
    IF mongoOk /\ MongoHas(date, time)
    THEN mongoDocs (-) SetToBag({<<date, time>>})
    ELSE mongoDocs

\* the in-memory branch of removeBookedSlot: no Map is created, the Set of
\* the date stays even when it becomes empty
MapDelete(date, time) ==
    IF globalBookedSlots.defined /\ date \in DOMAIN globalBookedSlots.map
    THEN [globalBookedSlots EXCEPT !.map[date] = @ \ {time}]
    ELSE globalBookedSlots

\* the map after a read through getBookedSlots or isSlotBooked
MapAfterRead == IF bookedSlotsCollection THEN globalBookedSlots ELSE MapEnsured

-----------------------------------------------------------------------------
(* Configuration and the Microsoft Graph client *)

OrganizerEmail == "admin@thrivebrands.ai"   \* ORGANIZER_EMAIL is left unset
OpsEmail == "ops@thrivebrands.ai"

\* TENANT_ID, CLIENT_ID and CLIENT_SECRET are all set or not; ADMIN_EMAIL is
\* unset (the default, the organizer's address) or another address
Envs == [credentials : BOOLEAN, ADMIN_EMAIL : {OrganizerEmail, OpsEmail}]

\* getAccessToken without the test of the credentials
getAccessTokenNoMockMode(tokenOk) ==
    IF tokenOk THEN [token |-> "access_token", outbound |-> TRUE]
    ELSE [token |-> "mock-token", outbound |-> TRUE]

\* getAccessToken: the mock token when a credential is missing (no request
\* is made) or when the token request fails
getAccessToken(tokenOk) ==
    IF ~env.credentials THEN [token |-> "mock-token", outbound |-> FALSE]
    ELSE IF tokenOk THEN [token |-> "access_token", outbound |-> TRUE]
    ELSE [token |-> "mock-token", outbound |-> TRUE]

\* createTeamsMeeting: mock data for the mock token; with a real token the
\* provider's meeting when a creation attempt succeeds; when the user lookup
\* or all attempts fail the outer catch returns mock data ("fallback")
createTeamsMeeting(tokenOk, graphOk) ==
    LET t == getAccessToken(tokenOk)
    IN  IF t.token = "mock-token" THEN [source |-> "mock", outbound |-> t.outbound]
        ELSE IF graphOk THEN [source |-> "provider", outbound |-> TRUE]
        ELSE [source |-> "fallback", outbound |-> TRUE]

\* a send function that reports success whatever sendMail answers
sendEmailNotificationNoCatch(tokenOk, sendOk) ==
    LET t == getAccessToken(tokenOk)
    IN  IF t.token = "mock-token"
        THEN [success |-> TRUE, outcome |-> "logged", outbound |-> t.outbound]
        ELSE IF sendOk
        THEN [success |-> TRUE, outcome |-> "sent", outbound |-> TRUE]
        ELSE [success |-> TRUE, outcome |-> "rejected", outbound |-> TRUE]

\* sendEmailNotification (sendOrganizerNotification and sendAdminNotification
\* have the same structure): with the mock token the mail is logged and
\* success is reported; otherwise sendMail is posted, and its failure is
\* caught and returned as success: false
sendEmailNotification(tokenOk, sendOk) ==
    LET t == getAccessToken(tokenOk)
    IN  IF t.token = "mock-token"
        THEN [success |-> TRUE, outcome |-> "logged", outbound |-> t.outbound]
        ELSE IF sendOk
        THEN [success |-> TRUE, outcome |-> "sent", outbound |-> TRUE]
        ELSE [success |-> FALSE, outcome |-> "rejected", outbound |-> TRUE]

-----------------------------------------------------------------------------
(* Start-up: app.listen's callback awaits connectToMongoDB while requests   *)
(* are already being served                                                *)

IdleReq == [pc |-> "idle", date |-> 0, clock |-> <<0, 0>>, time |-> <<>>,
            time24h |-> <<>>, now |-> 0, guestEmails |-> <<>>,
            startTime |-> 0, endTime |-> 0,
            status |-> 0, error |-> "", meeting |-> "none",
            bookedOnArrival |-> FALSE, slotWasBooked |-> FALSE,
            store |-> "none", connAtReserve |-> "none", insertFailed |-> FALSE,
            reserved |-> FALSE, outbound |-> FALSE,
            emailResults |-> <<>>, log |-> <<>>, overlapped |-> {}]

NoResp == [kind |-> "none"]

Init ==
    /\ tz \in TzOffsets
    /\ env \in Envs
    /\ conn = "connecting"
    /\ bookedSlotsCollection = FALSE
    /\ uniqueIndex \in BOOLEAN      \* the index may survive from an earlier run
    /\ mongoDocs = EmptyBag
    /\ globalBookedSlots = NoMap
    /\ req = [r \in Reqs |-> IdleReq]
    /\ resp = NoResp

\* client.connect() resolves: db and bookedSlotsCollection are assigned and
\* createIndex is awaited
ConnectOk ==
    /\ conn = "connecting"
    /\ conn' = "indexing"
    /\ bookedSlotsCollection' = TRUE
    /\ UNCHANGED <<tz, env, uniqueIndex, mongoDocs, globalBookedSlots, req, resp>>

\* client.connect() rejects: the catch logs and the collection stays unset
ConnectFail ==
    /\ conn = "connecting"
    /\ conn' = "failed"
    /\ UNCHANGED <<tz, env, bookedSlotsCollection, uniqueIndex, mongoDocs,
                   globalBookedSlots, req, resp>>

NoDuplicates == \A p \in BagToSet(mongoDocs) : CopiesIn(p, mongoDocs) <= 1

\* createIndex({date: 1, time: 1}, {unique: true}) resolves
IndexOk ==
    /\ conn = "indexing"
    /\ NoDuplicates
    /\ conn' = "ready"
    /\ uniqueIndex' = TRUE
    /\ UNCHANGED <<tz, env, bookedSlotsCollection, mongoDocs, globalBookedSlots, req, resp>>

\* createIndex rejects (duplicate keys, or the server refuses): the catch
\* logs; bookedSlotsCollection stays assigned
IndexFail ==
    /\ conn = "indexing"
    /\ conn' = "failed"
    /\ UNCHANGED <<tz, env, bookedSlotsCollection, uniqueIndex, mongoDocs,
                   globalBookedSlots, req, resp>>

-----------------------------------------------------------------------------
(* POST /api/schedule-discovery-call *)

\* the two forms in which a client writes a clock time
TimeForms == {"24-hour", "12-hour"}

\* the clock time <<hour, minute>> as the client writes it
Written(clock, form) ==
    IF form = "24-hour" THEN slotTimeOf(clock[1], clock[2])
    ELSE formatTimeForEmail(slotTimeOf(clock[1], clock[2]))

\* times a client sends, as <<clock, form>>: 24-hour and 12-hour forms,
\* inside and outside business hours
BookingTimes ==
    {<<<<9, 0>>, "24-hour">>, <<<<9, 0>>, "12-hour">>,
     <<<<10, 15>>, "24-hour">>,
     <<<<17, 30>>, "24-hour">>, <<<<18, 0>>, "24-hour">>}

\* userDetails.email and the guestEmails a client sends: none, one guest,
\* the requester's own address again, a guest twice around the requester,
\* or the organizer's address
RequesterEmail == "john.doe@example.com"
GuestEmail == "guest@example.com"
GuestLists ==
    {<<>>, <<GuestEmail>>, <<RequesterEmail>>,
     <<GuestEmail, RequesterEmail, GuestEmail>>, <<OrganizerEmail>>}

InFlight(r) == req[r].pc \in {"meeting", "insert", "notify"}

\* the loop over the attendees without the Set that removes repeated addresses
RECURSIVE attendeesToNotifyNoSet(_, _)
attendeesToNotifyNoSet(emails, seen) ==
    IF emails = <<>> THEN <<>>
    ELSE IF Head(emails) \in seen THEN attendeesToNotifyNoSet(Tail(emails), seen)
    ELSE <<Head(emails)>> \o attendeesToNotifyNoSet(Tail(emails), seen)

\* [...new Set([...attendees, userDetails.email])] walked by the loop that
\* skips userDetails.email
RECURSIVE attendeesToNotify(_, _)
attendeesToNotify(emails, seen) ==
    IF emails = <<>> THEN <<>>
    ELSE IF Head(emails) \in seen THEN attendeesToNotify(Tail(emails), seen)
    ELSE <<Head(emails)>> \o attendeesToNotify(Tail(emails), seen \cup {Head(emails)})

\* the notifications of one request, in the order they are attempted
notifications(guestEmails) ==
    <<[recipient |-> RequesterEmail, type |-> "confirmation"]>>
    \o [i \in 1..Len(attendeesToNotify(guestEmails, {RequesterEmail})) |->
          [recipient |-> attendeesToNotify(guestEmails, {RequesterEmail})[i],
           type |-> "confirmation"]]
    \o <<[recipient |-> OrganizerEmail, type |-> "organizer_notification"]>>
    \o (IF env.ADMIN_EMAIL # OrganizerEmail
        THEN <<[recipient |-> env.ADMIN_EMAIL, type |-> "admin_notification"]>>
        ELSE <<>>)

\* the validation without the test of the weekday
validationErrorNoWeekday(dayOfWeek, hour) ==
    IF hour < OpenHour \/ hour >= CloseHour THEN "OutsideBusinessHours"
    ELSE ""

\* the validation without the test of the business hours
validationErrorNoHours(dayOfWeek, hour) ==
    IF dayOfWeek = 0 \/ dayOfWeek = 6 THEN "NotAWeekday"
    ELSE ""

\* the two validations of the handler; "" when the request passes
validationError(dayOfWeek, hour) ==
    IF dayOfWeek = 0 \/ dayOfWeek = 6 THEN "NotAWeekday"
    ELSE IF hour < OpenHour \/ hour >= CloseHour THEN "OutsideBusinessHours"
    ELSE ""

\* the request arrives and is validated, up to the await of createTeamsMeeting
Schedule(r, selectedDate, clock, form, now, guestEmails) ==
    /\ req[r].pc = "idle"
    /\ IF r = 1 THEN TRUE ELSE req[r - 1].pc # "idle"   \* ids are taken in order
    /\ LET selectedTime == Written(clock, form)
           time24h == convertTo24Hour(selectedTime)
           selectedDateTime == LocalDate(selectedDate, time24h)
           dateOnly == LocalDate(selectedDate, Midnight)
           dayOfWeek == getDay(dateOnly)
           hour == getHours(selectedDateTime)
           error == validationError(dayOfWeek, hour)
           startDateTime == NoidaDate(selectedDate, time24h)
           base == [req[r] EXCEPT !.date = selectedDate, !.clock = clock,
                                  !.time = selectedTime, !.time24h = time24h,
                                  !.now = now, !.guestEmails = guestEmails,
                                  !.bookedOnArrival =
                                      isSlotBooked(selectedDate, time24h, TRUE)]
           others == {q \in Reqs : InFlight(q)}
       IN  IF error # ""
           THEN req' = [req EXCEPT ![r] =
                   [base EXCEPT !.pc = "done", !.status = 400, !.error = error,
                                !.log = <<"validate", "respond">>]]
           ELSE req' = [q \in Reqs |->
                   IF q = r
                   THEN [base EXCEPT !.pc = "meeting", !.overlapped = others,
                                     !.startTime = startDateTime,
                                     !.endTime = startDateTime + SlotMinutes,
                                     !.log = <<"validate", "createTeamsMeeting">>]
                   ELSE IF q \in others
                        THEN [req[q] EXCEPT !.overlapped = @ \cup {r}]
                        ELSE req[q]]
    /\ UNCHANGED <<tz, env, conn, bookedSlotsCollection, uniqueIndex, mongoDocs,
                   globalBookedSlots, resp>>

\* createTeamsMeeting resolves (it returns a provider meeting or mock data and
\* never rejects); addBookedSlot is called: with the collection set it awaits
\* insertOne, otherwise it adds to the in-memory map at once
MeetingCreated(r, tokenOk, graphOk) ==
    /\ req[r].pc = "meeting"
    /\ \E meeting \in {createTeamsMeeting(tokenOk, graphOk)} :
         \E called \in {[req[r] EXCEPT !.meeting = meeting.source,
                                       !.outbound = meeting.outbound,
                                       !.connAtReserve = conn,
                                       !.log = Append(@, "addBookedSlot")]} :
           IF bookedSlotsCollection
           THEN /\ req' = [req EXCEPT ![r] =
                       [called EXCEPT !.pc = "insert", !.store = "mongo"]]
                /\ UNCHANGED globalBookedSlots
           ELSE /\ req' = [req EXCEPT ![r] =
                       [called EXCEPT !.pc = "notify", !.store = "memory",
                            !.slotWasBooked = MapHas(req[r].date, req[r].time24h),
                            !.reserved = TRUE]]
                /\ globalBookedSlots' = MapAdd(req[r].date, req[r].time24h)
    /\ UNCHANGED <<tz, env, conn, bookedSlotsCollection, uniqueIndex, mongoDocs, resp>>

\* insertOne settles; addBookedSlot catches whatever it throws and returns
InsertSettled(r, mongoOk) ==
    /\ req[r].pc = "insert"
    /\ mongoDocs' = MongoInsert(req[r].date, req[r].time24h, mongoOk)
    /\ req' = [req EXCEPT ![r].pc = "notify",
                  ![r].slotWasBooked = MongoHas(req[r].date, req[r].time24h),
                  ![r].insertFailed = ~mongoOk,
                  ![r].reserved = BagIn(<<req[r].date, req[r].time24h>>, mongoDocs')]
    /\ UNCHANGED <<tz, env, conn, bookedSlotsCollection, uniqueIndex,
                   globalBookedSlots, resp>>

\* the notifications are attempted one after the other, each result is pushed
\* on emailResults, and res.json answers 200; deliveries are the outcomes
\* <<token request succeeds, sendMail succeeds>> a notification can meet
Respond(r, deliveries) ==
    /\ req[r].pc = "notify"
    /\ \E recipients \in {notifications(req[r].guestEmails)} :
       \E outcomes \in [1..Len(recipients) -> deliveries] :
       \E emailResults \in {[i \in 1..Len(recipients) |->
                [recipient |-> recipients[i].recipient,
                 type |-> recipients[i].type,
                 outcome |-> sendEmailNotification(outcomes[i][1], outcomes[i][2]).outcome,
                 success |-> sendEmailNotification(outcomes[i][1], outcomes[i][2]).success]]} :
          req' = [req EXCEPT ![r].pc = "done", ![r].status = 200,
                     ![r].emailResults = emailResults,
                     ![r].outbound = @ \/ \E i \in 1..Len(recipients) :
                         sendEmailNotification(outcomes[i][1], outcomes[i][2]).outbound,
                     ![r].log = @ \o [i \in 1..Len(recipients) |-> "notify"]
                                  \o <<"respond">>]
    /\ UNCHANGED <<tz, env, conn, bookedSlotsCollection, uniqueIndex, mongoDocs,
                   globalBookedSlots, resp>>

Connect == ConnectOk \/ ConnectFail \/ IndexOk \/ IndexFail

\* the requests rs, arriving at one of the instants nows with one of the
\* guest lists, their notifications meeting one of the deliveries
Call(rs, nows, guestLists, deliveries) ==
    \E r \in rs :
        \/ \E d \in Dates, t \in BookingTimes, now \in nows, g \in guestLists :
              Schedule(r, d, t[1], t[2], now, g)
        \/ \E tokenOk \in BOOLEAN, graphOk \in BOOLEAN : MeetingCreated(r, tokenOk, graphOk)
        \/ \E mongoOk \in BOOLEAN : InsertSettled(r, mongoOk)
        \/ Respond(r, deliveries)

\* requests without guests whose notifications are all delivered
Booking(rs) == Call(rs, {FirstNow}, {<<>>}, {<<TRUE, TRUE>>})

Next == Connect \/ Booking(Reqs)

Spec == Init /\ [][Next]_vars

\* one request with every arrival instant, guest list and delivery outcome
NextCall == Connect \/ Call({1}, Nows, GuestLists, BOOLEAN \X BOOLEAN)

SpecCall == Init /\ [][NextCall]_vars

-----------------------------------------------------------------------------
(* GET /api/check-availability *)

WeekdayMessage == "Meetings can only be scheduled on weekdays (Monday-Friday)"
HoursMessage ==
    "Meetings can only be scheduled between 9:00 AM and 6:00 PM (Noida time)"
PastMessage == "Cannot schedule meetings in the past"
BookedMessage == "This time slot is already booked"
AvailableMessage == "Time slot is available"

\* clock times a client asks about, as <<hour, minute>>
QueryClocks == {<<8, 30>>, <<9, 0>>, <<17, 30>>, <<18, 0>>}

checkMessage(isWeekday, isBusinessHours, isFuture, isBooked) ==
    IF ~isWeekday THEN WeekdayMessage
    ELSE IF ~isBusinessHours THEN HoursMessage
    ELSE IF ~isFuture THEN PastMessage
    ELSE IF isBooked THEN BookedMessage
    ELSE AvailableMessage

checkAvailabilityResponse(date, time, clock, now, time24h, isBooked) ==
    LET selectedDateTime == LocalDate(date, time24h)
        dateOnly == LocalDate(date, Midnight)
        dayOfWeek == getDay(dateOnly)
        hour == getHours(selectedDateTime)
        isWeekday == dayOfWeek >= 1 /\ dayOfWeek <= 5
        isBusinessHours == hour >= OpenHour /\ hour < CloseHour
        isFuture == selectedDateTime > now
    IN  [kind |-> "check-availability", status |-> 200,
         date |-> date, time |-> time, clock |-> clock, now |-> now,
         available |-> isWeekday /\ isBusinessHours /\ isFuture /\ ~isBooked,
         message |-> checkMessage(isWeekday, isBusinessHours, isFuture, isBooked),
         dayOfWeek |-> dayOfWeek, hour |-> hour,
         isWeekday |-> isWeekday,
         isBusinessHours |-> isBusinessHours,
         isFuture |-> isFuture,
         time24h |-> time24h, isBooked |-> isBooked]

CheckAvailability(date, clock, form, now, mongoOk) ==
    /\ resp = NoResp
    /\ \E time \in {Written(clock, form)} :
       \E time24h \in {convertTo24Hour(time)} :
       \E isBooked \in {isSlotBooked(date, time24h, mongoOk)} :
          resp' = checkAvailabilityResponse(date, time, clock, now, time24h, isBooked)
    /\ globalBookedSlots' = MapAfterRead
    /\ UNCHANGED <<tz, env, conn, bookedSlotsCollection, uniqueIndex, mongoDocs, req>>

-----------------------------------------------------------------------------
(* GET /api/available-slots *)

\* toLocaleTimeString('en-US', {hour: 'numeric', minute: '2-digit',
\* hour12: true, timeZone: 'Asia/Kolkata'})
displayTimeOf(instant) ==
    LET wall == (instant + NoidaOffset) % 1440
    IN  formatTimeForEmail(slotTimeOf(wall \div 60, wall % 60))

\* lookups of the request for which findOne throws
FailedLookups == {{}, {slotTimeOf(9, 0)}}

slotEntry(date, now, failed, hour, minute) ==
    LET slotTime == slotTimeOf(hour, minute)
        slotDateTime == LocalDate(date, slotTime)
        isPast == slotDateTime <= now
        isBooked == isSlotBooked(date, slotTime, slotTime \notin failed)
    IN  [time |-> slotTime,
         displayTime |-> displayTimeOf(slotDateTime),
         available |-> ~isPast /\ ~isBooked,
         reason |-> IF isPast THEN "Past time slot"
                    ELSE IF isBooked THEN "Already booked"
                    ELSE "Available",
         isBooked |-> isBooked]

\* for (hour = 9; hour < 18; hour++) for (minute = 0; minute < 60; minute += 30)
RECURSIVE timeSlotsFrom(_, _, _, _, _)
timeSlotsFrom(date, now, failed, hour, minute) ==
    IF hour >= CloseHour THEN <<>>
    ELSE IF minute >= 60 THEN timeSlotsFrom(date, now, failed, hour + 1, 0)
    ELSE <<slotEntry(date, now, failed, hour, minute)>>
           \o timeSlotsFrom(date, now, failed, hour, minute + SlotMinutes)

availableSlotsDayOfWeek(date) == getDay(toNoidaWallClock(LocalDate(date, Midnight)))

AvailableSlots(date, now, failed) ==
    /\ resp = NoResp
    /\ \E dayOfWeek \in {availableSlotsDayOfWeek(date)} :
          IF dayOfWeek = 0 \/ dayOfWeek = 6
          THEN /\ resp' = [kind |-> "available-slots", status |-> 200,
                           closed |-> TRUE, date |-> date, now |-> now,
                           dayOfWeek |-> dayOfWeek, available |-> FALSE,
                           message |-> WeekdayMessage, slots |-> <<>>]
               /\ UNCHANGED globalBookedSlots
          ELSE \E timeSlots \in {timeSlotsFrom(date, now, failed, OpenHour, 0)} :
               /\ resp' = [kind |-> "available-slots", status |-> 200,
                           closed |-> FALSE, date |-> date, now |-> now,
                           dayOfWeek |-> dayOfWeek,
                           totalSlots |-> Len(timeSlots),
                           availableSlots |->
                               Cardinality({i \in 1..Len(timeSlots) :
                                               timeSlots[i].available}),
                           slots |-> timeSlots]
               /\ globalBookedSlots' = MapAfterRead
    /\ UNCHANGED <<tz, env, conn, bookedSlotsCollection, uniqueIndex, mongoDocs, req>>

\* the client has read the response; the next query may be served
Delivered ==
    /\ resp # NoResp
    /\ resp' = NoResp
    /\ UNCHANGED <<tz, env, conn, bookedSlotsCollection, uniqueIndex, mongoDocs,
                   globalBookedSlots, req>>

Query ==
    \/ Delivered
    \/ \E d \in Dates, c \in QueryClocks, f \in TimeForms, now \in Nows,
          mongoOk \in BOOLEAN :
             (mongoOk \/ bookedSlotsCollection) /\ CheckAvailability(d, c, f, now, mongoOk)
    \/ \E d \in Dates, now \in Nows, failed \in FailedLookups :
          (failed = {} \/ bookedSlotsCollection) /\ AvailableSlots(d, now, failed)

\* the query handlers read no configuration: the server runs without
\* credentials and with the default ADMIN_EMAIL
InitQuery ==
    /\ Init
    /\ env = [credentials |-> FALSE, ADMIN_EMAIL |-> OrganizerEmail]

\* the query handlers beside the start-up and one booking request
NextQuery == Connect \/ Booking({1}) \/ Query

SpecQuery == InitQuery /\ [][NextQuery]_vars

-----------------------------------------------------------------------------
(* GET /api/booked-slots *)

\* the handler maps every time of getBookedSlots to an entry and counts the
\* array; isSlotBooked records what isSlotBooked answers for the date when
\* the response is built
BookedSlots(date, mongoOk) ==
    /\ resp = NoResp
    /\ \E bookedSlotsForDate \in {getBookedSlots(date, mongoOk)} :
          resp' = [kind |-> "booked-slots", status |-> 200, date |-> date,
                   findOk |-> mongoOk,
                   bookedSlots |->
                       [entry \in {[time |-> t,
                                    displayTime |-> formatTimeForEmail(t),
                                    booked |-> TRUE] :
                                      t \in BagToSet(bookedSlotsForDate)} |->
                           CopiesIn(entry.time, bookedSlotsForDate)],
                   totalBookedSlots |-> BagCardinality(bookedSlotsForDate),
                   isSlotBooked |->
                       {t \in StoredTimes : isSlotBooked(date, t, TRUE)}]
    /\ globalBookedSlots' = MapAfterRead
    /\ UNCHANGED <<tz, env, conn, bookedSlotsCollection, uniqueIndex, mongoDocs, req>>

\* the list of booked slots beside the start-up and the booking requests, on
\* a server in Asia/Kolkata without credentials
InitList ==
    /\ Init
    /\ tz = NoidaOffset
    /\ env = [credentials |-> FALSE, ADMIN_EMAIL |-> OrganizerEmail]

NextList ==
    \/ Connect
    \/ Booking(Reqs)
    \/ Delivered
    \/ \E d \in Dates, mongoOk \in BOOLEAN :
          (mongoOk \/ bookedSlotsCollection) /\ BookedSlots(d, mongoOk)

SpecList == InitList /\ [][NextList]_vars

-----------------------------------------------------------------------------
(* GET / and POST /api/create-meeting *)

\* the health endpoint answers a constant document
Health ==
    /\ resp = NoResp
    /\ resp' = [kind |-> "health", status |-> 200]
    /\ UNCHANGED <<tz, env, conn, bookedSlotsCollection, uniqueIndex, mongoDocs,
                   globalBookedSlots, req>>

\* create-meeting with all required fields: createTeamsMeeting, one
\* notification per attendee, then res.json; the store is not called
CreateMeeting(tokenOk, graphOk, sendOk) ==
    /\ resp = NoResp
    /\ resp' = [kind |-> "create-meeting", status |-> 200,
                meeting |-> createTeamsMeeting(tokenOk, graphOk).source,
                emailResults |->
                    <<[recipient |-> GuestEmail,
                       success |-> sendEmailNotification(tokenOk, sendOk).success]>>]
    /\ UNCHANGED <<tz, env, conn, bookedSlotsCollection, uniqueIndex, mongoDocs,
                   globalBookedSlots, req>>

\* every handler of the server beside the start-up, on a server in
\* Asia/Kolkata without credentials
NextServer ==
    \/ Connect
    \/ Booking({1})
    \/ Query
    \/ Health
    \/ \E tokenOk \in BOOLEAN, graphOk \in BOOLEAN, sendOk \in BOOLEAN :
          CreateMeeting(tokenOk, graphOk, sendOk)
    \/ \E d \in Dates, mongoOk \in BOOLEAN :
          (mongoOk \/ bookedSlotsCollection) /\ BookedSlots(d, mongoOk)

SpecServer == InitList /\ [][NextServer]_vars

-----------------------------------------------------------------------------
(* addBookedSlot and removeBookedSlot applied directly to the store *)

\* the pairs the store functions are applied to:
\* two times of one date and one time of another date
StorePairs ==
    ({MaxDate} \X {slotTimeOf(9, 0), slotTimeOf(17, 30)})
    \cup ({MaxDate - 1} \X {slotTimeOf(9, 0)})

\* what isSlotBooked answers for each of the pairs
BookedPairs == {p \in StorePairs : isSlotBooked(p[1], p[2], TRUE)}

\* addBookedSlot(date, time): insertOne when the collection is set, else the
\* in-memory map; it returns undefined on every path
AddBookedSlot(date, time, mongoOk) ==
    /\ resp = NoResp
    /\ CopiesIn(<<date, time>>, mongoDocs) < MaxCopies
    /\ IF bookedSlotsCollection
       THEN /\ mongoDocs' = MongoInsert(date, time, mongoOk)
            /\ UNCHANGED globalBookedSlots
       ELSE /\ globalBookedSlots' = MapAdd(date, time)
            /\ UNCHANGED mongoDocs
    /\ UNCHANGED <<tz, env, conn, bookedSlotsCollection, uniqueIndex, req>>
    /\ resp' = [kind |-> "addBookedSlot", date |-> date, time |-> time,
                storeOk |-> mongoOk, returned |-> "undefined",
                before |-> BookedPairs, after |-> BookedPairs']

\* removeBookedSlot(date, time): deleteOne when the collection is set, else
\* the in-memory map; it returns undefined on every path
RemoveBookedSlot(date, time, mongoOk) ==
    /\ resp = NoResp
    /\ IF bookedSlotsCollection
       THEN /\ mongoDocs' = MongoDelete(date, time, mongoOk)
            /\ UNCHANGED globalBookedSlots
       ELSE /\ globalBookedSlots' = MapDelete(date, time)
            /\ UNCHANGED mongoDocs
    /\ UNCHANGED <<tz, env, conn, bookedSlotsCollection, uniqueIndex, req>>
    /\ resp' = [kind |-> "removeBookedSlot", date |-> date, time |-> time,
                storeOk |-> mongoOk, returned |-> "undefined",
                before |-> BookedPairs, after |-> BookedPairs']

\* the store functions read neither the time zone nor the configuration
InitStore ==
    /\ Init
    /\ tz = NoidaOffset
    /\ env = [credentials |-> FALSE, ADMIN_EMAIL |-> OrganizerEmail]

NextStore ==
    \/ Connect
    \/ Delivered
    \/ \E p \in StorePairs, mongoOk \in BOOLEAN :
          (mongoOk \/ bookedSlotsCollection) /\ AddBookedSlot(p[1], p[2], mongoOk)
    \/ \E p \in StorePairs, mongoOk \in BOOLEAN :
          (mongoOk \/ bookedSlotsCollection) /\ RemoveBookedSlot(p[1], p[2], mongoOk)

SpecStore == InitStore /\ [][NextStore]_vars

-----------------------------------------------------------------------------
(* createTeamsMeeting, one awaited request at a time *)

\* the number of the last approach, /communications/calls
LastApproach == 5

\* going on to the next approach whatever approach k answered
approachAfterAnyAnswer(k, succeeded) ==
    IF k < LastApproach THEN k + 1 ELSE 0

\* the nesting of the try/catch blocks: approach k+1 stands in the catch of
\* approach k, and the catch of approach 5 throws; 0 when no approach follows
approachAfter(k, succeeded) ==
    IF succeeded THEN 0
    ELSE IF k < LastApproach THEN k + 1
    ELSE 0

MeetingCall(pc, token, next, attempted, outcomes, created, meetingResponse, source) ==
    [kind |-> "createTeamsMeeting", pc |-> pc, token |-> token, next |-> next,
     attempted |-> attempted, outcomes |-> outcomes, created |-> created,
     meetingResponse |-> meetingResponse, source |-> source]

\* createTeamsMeeting is called and awaits getAccessToken; with the mock token
\* it returns mock data at once
MeetingStart(tokenOk) ==
    /\ resp = NoResp
    /\ resp' = IF getAccessToken(tokenOk).token = "mock-token"
               THEN MeetingCall("returned", "mock-token", 0, <<>>, <<>>, <<>>, 0, "mock")
               ELSE MeetingCall("user", "access_token", 0, <<>>, <<>>, <<>>, 0, "none")
    /\ UNCHANGED <<tz, env, conn, bookedSlotsCollection, uniqueIndex, mongoDocs,
                   globalBookedSlots, req>>

\* GET /users/{organizerEmail} settles (the licence request that follows is
\* caught either way): on failure the inner catch rethrows and the outer
\* catch returns mock data
UserLookup(userOk) ==
    /\ resp.kind = "createTeamsMeeting"
    /\ resp.pc = "user"
    /\ resp' = IF userOk
               THEN [resp EXCEPT !.pc = "approach", !.next = 1]
               ELSE [resp EXCEPT !.pc = "returned", !.source = "fallback"]
    /\ UNCHANGED <<tz, env, conn, bookedSlotsCollection, uniqueIndex, mongoDocs,
                   globalBookedSlots, req>>

\* the POST of approach resp.next settles; after the last attempt
\* meetingResponse.data is returned, or error5 is thrown and the outer catch
\* returns mock data
Approach(succeeded) ==
    /\ resp.kind = "createTeamsMeeting"
    /\ resp.pc = "approach"
    /\ \E k \in {resp.next} :
       \E tried \in {[resp EXCEPT
                        !.attempted = Append(@, k),
                        !.outcomes = Append(@, succeeded),
                        !.created = IF succeeded THEN Append(@, k) ELSE @,
                        !.meetingResponse = IF succeeded THEN k ELSE @]} :
          resp' = IF approachAfter(k, succeeded) # 0
                  THEN [tried EXCEPT !.next = approachAfter(k, succeeded)]
                  ELSE IF succeeded
                  THEN [tried EXCEPT !.pc = "returned", !.next = 0,
                                     !.source = "provider"]
                  ELSE [tried EXCEPT !.pc = "returned", !.next = 0,
                                     !.meetingResponse = 0,
                                     !.source = "fallback"]
    /\ UNCHANGED <<tz, env, conn, bookedSlotsCollection, uniqueIndex, mongoDocs,
                   globalBookedSlots, req>>

NextMeeting ==
    \/ Connect
    \/ Delivered
    \/ \E tokenOk \in BOOLEAN : MeetingStart(tokenOk)
    \/ \E userOk \in BOOLEAN : UserLookup(userOk)
    \/ \E succeeded \in BOOLEAN : Approach(succeeded)

SpecMeeting == Init /\ [][NextMeeting]_vars

-----------------------------------------------------------------------------
(* The HTTP exchanges: every request of the four handlers up to its response *)

QueryHandlers == {"check-availability", "available-slots", "booked-slots"}

Exchange(handler, date, pc, status, responses) ==
    [kind |-> "exchange", handler |-> handler, date |-> date, pc |-> pc,
     status |-> status, responses |-> responses, lookupOk |-> TRUE]

\* POST /api/schedule-discovery-call without one of the required fields:
\* the handler answers 400 before any validation
ScheduleMissingFields(r) ==
    /\ req[r].pc = "idle"
    /\ IF r = 1 THEN TRUE ELSE req[r - 1].pc # "idle"
    /\ req' = [req EXCEPT ![r].pc = "done", ![r].status = 400,
                          ![r].error = "MissingFields",
                          ![r].log = <<"respond">>]
    /\ UNCHANGED <<tz, env, conn, bookedSlotsCollection, uniqueIndex, mongoDocs,
                   globalBookedSlots, resp>>

\* POST /api/schedule-discovery-call whose guestEmails cannot be spread (a
\* number): after the validation [userDetails.email, ...guestEmails] throws
\* and the catch of the handler answers 500
ScheduleGuestsNotIterable(r, selectedDate, clock, form) ==
    /\ req[r].pc = "idle"
    /\ IF r = 1 THEN TRUE ELSE req[r - 1].pc # "idle"
    /\ \E time24h \in {convertTo24Hour(Written(clock, form))} :
       \E error \in {validationError(getDay(LocalDate(selectedDate, Midnight)),
                                     getHours(LocalDate(selectedDate, time24h)))} :
          req' = [req EXCEPT ![r].pc = "done",
                             ![r].date = selectedDate, ![r].clock = clock,
                             ![r].time = Written(clock, form),
                             ![r].time24h = time24h,
                             ![r].status = IF error # "" THEN 400 ELSE 500,
                             ![r].error = IF error # "" THEN error ELSE "TypeError",
                             ![r].log = <<"validate", "respond">>]
    /\ UNCHANGED <<tz, env, conn, bookedSlotsCollection, uniqueIndex, mongoDocs,
                   globalBookedSlots, resp>>

\* a GET request arrives: the parameter tests and the early returns that
\* precede the first await (a missing parameter, a malformed date of
\* booked-slots, a weekend of available-slots)
QueryArrives(handler, date, present, wellFormed) ==
    /\ resp = NoResp
    /\ resp' = IF ~present THEN Exchange(handler, date, "done", 400, 1)
               ELSE IF handler = "booked-slots" /\ ~wellFormed
               THEN Exchange(handler, date, "done", 400, 1)
               ELSE IF handler = "available-slots"
                       /\ availableSlotsDayOfWeek(date) \in {0, 6}
               THEN Exchange(handler, date, "done", 200, 1)
               ELSE Exchange(handler, date, "await", 0, 0)
    /\ UNCHANGED <<tz, env, conn, bookedSlotsCollection, uniqueIndex, mongoDocs,
                   globalBookedSlots, req>>

\* the awaited lookups reject and nothing catches the rejection: the handler
\* ends without an answer
QuerySettlesUncaught(mongoOk) ==
    /\ resp.kind = "exchange"
    /\ resp.pc = "await"
    /\ resp' = [resp EXCEPT !.pc = "done", !.lookupOk = mongoOk,
                            !.status = IF mongoOk THEN 200 ELSE 0,
                            !.responses = IF mongoOk THEN @ + 1 ELSE @]
    /\ globalBookedSlots' = MapAfterRead
    /\ UNCHANGED <<tz, env, conn, bookedSlotsCollection, uniqueIndex, mongoDocs, req>>

\* the awaited lookups settle: isSlotBooked and getBookedSlots catch their own
\* errors, so the handler goes on to res.json in either case
QuerySettles(mongoOk) ==
    /\ resp.kind = "exchange"
    /\ resp.pc = "await"
    /\ resp' = [resp EXCEPT !.pc = "done", !.lookupOk = mongoOk,
                            !.status = 200, !.responses = @ + 1]
    /\ globalBookedSlots' = MapAfterRead
    /\ UNCHANGED <<tz, env, conn, bookedSlotsCollection, uniqueIndex, mongoDocs, req>>

\* the client has read the answer of its GET request
ExchangeDelivered ==
    /\ resp.kind = "exchange"
    /\ resp.pc = "done"
    /\ Delivered

\* the awaited calls of request r settle one after the other
BookingSettles(r) ==
    \/ \E tokenOk \in BOOLEAN, graphOk \in BOOLEAN : MeetingCreated(r, tokenOk, graphOk)
    \/ \E mongoOk \in BOOLEAN : InsertSettled(r, mongoOk)
    \/ Respond(r, BOOLEAN \X BOOLEAN)

\* a server in Asia/Kolkata with credentials and the default ADMIN_EMAIL
InitLive ==
    /\ Init
    /\ tz = NoidaOffset
    /\ env = [credentials |-> TRUE, ADMIN_EMAIL |-> OrganizerEmail]

NextLive ==
    \/ Connect
    \/ \E d \in Dates, t \in BookingTimes : Schedule(1, d, t[1], t[2], FirstNow, <<>>)
    \/ BookingSettles(1)
    \/ ScheduleMissingFields(1)
    \/ \E d \in Dates, t \in BookingTimes : ScheduleGuestsNotIterable(1, d, t[1], t[2])
    \/ \E h \in QueryHandlers, d \in Dates, present \in BOOLEAN, wellFormed \in BOOLEAN :
          QueryArrives(h, d, present, wellFormed)
    \/ \E mongoOk \in BOOLEAN : QuerySettles(mongoOk)
    \/ ExchangeDelivered

\* every awaited call settles: the promises of the provider, of the store and
\* of the mail requests resolve or reject
SpecLive ==
    /\ InitLive
    /\ [][NextLive]_vars
    /\ WF_vars(BookingSettles(1))
    /\ WF_vars(\E mongoOk \in BOOLEAN : QuerySettles(mongoOk))

-----------------------------------------------------------------------------
(* convertTo24Hour applied to every clock time in both written forms *)

Normalize(clock, form) ==
    /\ resp = NoResp
    /\ resp' = [kind |-> "convertTo24Hour", clock |-> clock, form |-> form,
                input |-> Written(clock, form),
                output |-> convertTo24Hour(Written(clock, form))]
    /\ UNCHANGED <<tz, env, conn, bookedSlotsCollection, uniqueIndex, mongoDocs,
                   globalBookedSlots, req>>

NextTime ==
    \/ Delivered
    \/ \E h \in 0..23, m \in 0..59, f \in TimeForms : Normalize(<<h, m>>, f)

SpecTime == Init /\ [][NextTime]_vars

-----------------------------------------------------------------------------
(* What the claims speak of, said without the handlers' own arithmetic *)

\* day of the week of a calendar date, 0 = Sunday
CalendarDayOfWeek(date) == (date + EpochDayOfWeek) % 7

IsWeekend(date) == CalendarDayOfWeek(date) \in {0, 6}

\* the instant at which the slot (date, clock) starts, in Asia/Kolkata
SlotInstant(date, clock) == 1440 * date + 60 * clock[1] + clock[2] - NoidaOffset

InBusinessHours(clock) == OpenHour <= clock[1] /\ clock[1] < CloseHour

\* a request that went through addBookedSlot and was answered
Reserved(r) == req[r].pc = "done" /\ req[r].meeting # "none"

SameSlot(r1, r2) ==
    req[r1].date = req[r2].date /\ req[r1].time24h = req[r2].time24h

\* the clock time of the i-th slot of a day, 09:00 being the first
SlotClock(i) == <<OpenHour + (i - 1) \div 2, SlotMinutes * ((i - 1) % 2)>>

-----------------------------------------------------------------------------
(* Claims *)

\* C1: of two schedule-discovery-call requests for the same slot that were
\* handled concurrently, exactly one completes as a successful booking and
\* the other observes SlotAlreadyBooked.
C1_ExactlyOneWinner ==
    \A r1, r2 \in Reqs :
        (/\ r1 # r2
         /\ Reserved(r1) /\ Reserved(r2)
         /\ SameSlot(r1, r2)
         /\ r2 \in req[r1].overlapped)
        => \/ req[r1].status = 200 /\ req[r2].error = "SlotAlreadyBooked"
           \/ req[r2].status = 200 /\ req[r1].error = "SlotAlreadyBooked"

\* C2: once a reserve of a (date, time) pair has succeeded, a later reserve
\* of the same pair fails with SlotAlreadyBooked instead of completing as a
\* success.
C2_SecondReserveFails ==
    \A q, r \in Reqs :
        (/\ Reserved(q) /\ req[q].status = 200
         /\ req[r].pc = "done" /\ req[r].slotWasBooked
         /\ SameSlot(q, r)
         /\ q < r /\ q \notin req[r].overlapped)
        => req[r].status # 200 /\ req[r].error = "SlotAlreadyBooked"

\* C3: after addBookedSlot(date, time) has completed inside a successful
\* schedule-discovery-call, isSlotBooked(date, time) returns true.
C3_ReservedIsBooked ==
    \A r \in Reqs :
        (req[r].pc = "done" /\ req[r].status = 200)
        => isSlotBooked(req[r].date, req[r].time24h, TRUE)

\* C4: in every reachable state of the Slot Store there is at most one
\* booked-slot record per (date, time) pair.
C4_OneRecordPerPair ==
    \A d \in Dates, t \in {convertTo24Hour(Written(x[1], x[2])) : x \in BookingTimes} :
        CopiesIn(<<d, t>>, mongoDocs) <= 1

\* C5: check-availability returns available=true if and only if the date is
\* a weekday, 9 <= hour < 18, the slot instant is strictly later than now,
\* and the (date, normalized time) pair is not booked.
C5_AvailableIff ==
    resp.kind = "check-availability"
    => (resp.available <=>
           /\ ~IsWeekend(resp.date)
           /\ InBusinessHours(resp.clock)
           /\ SlotInstant(resp.date, resp.clock) > resp.now
           /\ ~resp.isBooked)

\* C6: the message of check-availability follows the precedence weekday
\* failure, business-hours failure, past-time failure, already booked,
\* available; the available message is returned exactly when available=true.
C6_MessagePrecedence ==
    resp.kind = "check-availability"
    => /\ resp.message =
            (IF IsWeekend(resp.date) THEN WeekdayMessage
             ELSE IF ~InBusinessHours(resp.clock) THEN HoursMessage
             ELSE IF ~(SlotInstant(resp.date, resp.clock) > resp.now) THEN PastMessage
             ELSE IF resp.isBooked THEN BookedMessage
             ELSE AvailableMessage)
       /\ (resp.message = AvailableMessage <=> resp.available)

\* C7: for a date that falls on a Saturday or Sunday, available-slots
\* returns an empty slots sequence with available=false and the weekday
\* message.
C7_WeekendIsClosed ==
    (resp.kind = "available-slots" /\ IsWeekend(resp.date))
    => /\ resp.closed
       /\ resp.slots = <<>>
       /\ resp.available = FALSE
       /\ resp.message = WeekdayMessage

\* C8: for a weekday date, available-slots returns exactly the 18 slots
\* 09:00, 09:30, ..., 17:30 in ascending order and totalSlots is 18.
C8_EighteenSlots ==
    (resp.kind = "available-slots" /\ ~IsWeekend(resp.date))
    => /\ ~resp.closed
       /\ resp.totalSlots = 18
       /\ Len(resp.slots) = 18
       /\ \A i \in 1..18 :
             resp.slots[i].time = slotTimeOf(SlotClock(i)[1], SlotClock(i)[2])

\* C9: every slot of available-slots has available = ~isPast /\ ~isBooked,
\* isPast meaning slot start <= now; its reason is 'Past time slot' if
\* isPast, else 'Already booked' if booked, else 'Available'; availableSlots
\* counts the slots whose available is true.
C9_SlotFlags ==
    (resp.kind = "available-slots" /\ ~resp.closed)
    => /\ \A i \in 1..Len(resp.slots) :
             LET slot == resp.slots[i]
                 isPast == SlotInstant(resp.date, SlotClock(i)) <= resp.now
             IN  /\ slot.available = (~isPast /\ ~slot.isBooked)
                 /\ slot.reason = (IF isPast THEN "Past time slot"
                                   ELSE IF slot.isBooked THEN "Already booked"
                                   ELSE "Available")
       /\ resp.availableSlots =
             Cardinality({i \in 1..Len(resp.slots) : resp.slots[i].available})

\* C10: convertTo24Hour maps a valid 24-hour time HH:MM and its 12-hour
\* equivalent H:MM AM|PM to that same HH:MM.
C10_NormalizeToSameTime ==
    resp.kind = "convertTo24Hour"
    => resp.output = slotTimeOf(resp.clock[1], resp.clock[2])

\* C10 witness: "12:30 AM" has been converted, to "00:30"
C10_Witness ==
    /\ resp.kind = "convertTo24Hour"
    /\ resp.input = <<"1", "2", ":", "3", "0", " ", "A", "M">>
    /\ resp.output = <<"0", "0", ":", "3", "0">>

\* a request that passed the validation of the handler
Accepted(r) == req[r].pc \in {"meeting", "insert", "notify"}
               \/ (req[r].pc = "done" /\ req[r].status # 400)

\* the in-memory map holds no time
MapIsEmpty ==
    \A d \in DOMAIN globalBookedSlots.map : globalBookedSlots.map[d] = {}

\* C11: a schedule-discovery-call request whose date is a Saturday or Sunday,
\* or whose hour is outside 9 <= hour < 18, is rejected with status 400
\* before any external call: no meeting is created, no slot is reserved (the
\* Slot Store is unchanged) and no notification is sent.
C11_RejectedBeforeAnyCall ==
    \A r \in Reqs :
        (/\ req[r].pc # "idle"
         /\ IsWeekend(req[r].date) \/ ~InBusinessHours(req[r].clock))
        => /\ req[r].pc = "done"
           /\ req[r].status = 400
           /\ req[r].meeting = "none"
           /\ ~req[r].outbound
           /\ req[r].store = "none"
           /\ mongoDocs = EmptyBag /\ MapIsEmpty
           /\ req[r].emailResults = <<>>

\* C11 witness: a request for Monday 18:00 has been rejected
C11_Witness ==
    /\ req[1].pc = "done"
    /\ req[1].status = 400
    /\ ~IsWeekend(req[1].date)
    /\ req[1].clock = <<18, 0>>
    /\ req[1].error = "OutsideBusinessHours"

\* C12: a schedule-discovery-call request whose (date, normalized time) is
\* already booked in the Slot Store when it arrives is rejected with status
\* 400 (SlotAlreadyBooked), and no second meeting is created for that slot.
C12_BookedSlotRejected ==
    \A r \in Reqs :
        (req[r].pc # "idle" /\ req[r].bookedOnArrival)
        => /\ req[r].pc = "done"
           /\ req[r].status = 400
           /\ req[r].error = "SlotAlreadyBooked"
           /\ req[r].meeting = "none"

\* C13: a schedule-discovery-call request (for a weekday, within business
\* hours) whose slot instant is not strictly later than the current time is
\* rejected with status 400 (PastTimeSlot): no meeting is created and no slot
\* is reserved.
C13_PastSlotRejected ==
    \A r \in Reqs :
        (/\ req[r].pc # "idle"
         /\ ~IsWeekend(req[r].date) /\ InBusinessHours(req[r].clock)
         /\ SlotInstant(req[r].date, req[r].clock) <= req[r].now)
        => /\ req[r].pc = "done"
           /\ req[r].status = 400
           /\ req[r].error = "PastTimeSlot"
           /\ req[r].meeting = "none"
           /\ req[r].store = "none"

\* C14: when the meeting provider fails to create the meeting (the token is
\* real and every creation attempt fails), the request is aborted with status
\* 500 (MeetingCreationFailed), no slot is reserved, and no success response
\* or confirmation email is produced.
C14_MeetingFailureAborts ==
    \A r \in Reqs :
        req[r].meeting = "fallback"
        => /\ req[r].store = "none"
           /\ req[r].emailResults = <<>>
           /\ req[r].pc = "done" => /\ req[r].status = 500
                                    /\ req[r].error = "MeetingCreationFailed"

NotRequester(email) == email # RequesterEmail

\* the positions of emails that hold a guest address for the first time
FirstGuestPositions(emails) ==
    {i \in 1..Len(emails) :
        /\ NotRequester(emails[i])
        /\ \A j \in 1..(i - 1) : emails[j] # emails[i]}

\* the distinct guest addresses of emails, in the order they first appear
DistinctGuests(emails) ==
    [k \in 1..Cardinality(FirstGuestPositions(emails)) |->
        emails[CHOOSE i \in FirstGuestPositions(emails) :
                  Cardinality({j \in FirstGuestPositions(emails) : j <= i}) = k]]

\* the recipients the handler is to notify: the requester, each guest, the
\* organizer, and the admin when the admin is not the organizer
AttemptedRecipients(r) ==
    <<RequesterEmail>>
    \o DistinctGuests(req[r].guestEmails)
    \o <<OrganizerEmail>>
    \o (IF env.ADMIN_EMAIL = OrganizerEmail THEN <<>> ELSE <<env.ADMIN_EMAIL>>)

\* the slot of request r is in the store that addBookedSlot wrote to
StillReserved(r) ==
    IF req[r].store = "mongo" THEN MongoHas(req[r].date, req[r].time24h)
    ELSE MapHas(req[r].date, req[r].time24h)

C17_FallbackRecordsBooking ==
    \A r \in Reqs :
        (/\ req[r].pc = "done" /\ req[r].status = 200
         /\ \/ req[r].store = "memory" /\ req[r].connAtReserve = "failed"
            \/ req[r].store = "mongo" /\ req[r].insertFailed)
        => /\ isSlotBooked(req[r].date, req[r].time24h, TRUE)
           /\ BagIn(req[r].time24h, getBookedSlots(req[r].date, TRUE))

\* C18: for every accepted schedule-discovery-call request the meeting start
\* sent to the provider is the instant of (selectedDate, normalized time) at
\* UTC+5:30, whatever the server's own time zone, and the meeting end is
\* exactly 30 minutes after the start.
C18_MeetingInstants ==
    \A r \in Reqs :
        Accepted(r)
        => /\ req[r].startTime = SlotInstant(req[r].date, req[r].clock)
           /\ req[r].endTime = req[r].startTime + 30

\* C18 witness: on a server at UTC+9 a request written as "9:00 AM" has been
\* handed to the provider with start 03:30 UTC
C18_Witness ==
    /\ tz = 540
    /\ req[1].pc = "done"
    /\ req[1].status = 200
    /\ req[1].meeting = "provider"
    /\ req[1].time = formatTimeForEmail(slotTimeOf(9, 0))
    /\ req[1].startTime = 3 * 1440 + 210

\* position of an event of the handler in the order validate, create
\* meeting, reserve slot, send notifications, respond
EventRank(event) ==
    CASE event = "validate" -> 1
      [] event = "createTeamsMeeting" -> 2
      [] event = "addBookedSlot" -> 3
      [] event = "notify" -> 4
      [] event = "respond" -> 5

\* C19: in every execution of schedule-discovery-call the events occur in
\* the order validate, create meeting, reserve slot, send notifications,
\* respond: the slot is reserved only after meeting creation has returned a
\* meeting, and no notification is sent before the slot has been reserved.
C19_OrderOfEvents ==
    \A r \in Reqs :
        /\ \A i, j \in 1..Len(req[r].log) :
              i < j => EventRank(req[r].log[i]) <= EventRank(req[r].log[j])
        /\ req[r].store # "none" => req[r].meeting # "none"
        /\ req[r].emailResults # <<>> => req[r].reserved

\* C20: for every date and every store state, booked-slots returns exactly
\* the set of times t for which isSlotBooked(date, t) is true (none of
\* another date, none missing), each entry marked booked=true, and
\* totalBookedSlots equals the number of booked times of that date.
C20_BookedSlotsExact ==
    (resp.kind = "booked-slots" /\ resp.findOk)
    => /\ {entry.time : entry \in BagToSet(resp.bookedSlots)} = resp.isSlotBooked
       /\ \A entry \in BagToSet(resp.bookedSlots) : entry.booked
       /\ resp.totalBookedSlots = Cardinality(resp.isSlotBooked)

\* C21: removeBookedSlot(date, time) removes that pair if present, so that
\* isSlotBooked(date, time) is false afterwards, and leaves the booked status
\* of every other pair unchanged; on a pair that is not booked it changes
\* nothing and reports NotFound; reserve followed by release of an unbooked
\* pair returns the store to its previous contents (addBookedSlot adds that
\* pair and no other).
C21_ReleaseRemovesPair ==
    /\ (resp.kind = "removeBookedSlot" /\ resp.storeOk)
       => /\ <<resp.date, resp.time>> \notin resp.after
          /\ resp.after \ {<<resp.date, resp.time>>}
                = resp.before \ {<<resp.date, resp.time>>}
          /\ <<resp.date, resp.time>> \notin resp.before
                => resp.after = resp.before /\ resp.returned = "NotFound"
    /\ (resp.kind = "addBookedSlot" /\ resp.storeOk)
       => resp.after = resp.before \cup {<<resp.date, resp.time>>}

\* the step in which addBookedSlot writes to the store
ReserveStep ==
    \E r \in Reqs : req[r].pc \in {"meeting", "insert"} /\ req'[r].pc = "notify"

\* C22: the Slot Store is changed only by schedule-discovery-call through
\* addBookedSlot: check-availability, available-slots, booked-slots,
\* create-meeting and the health endpoint leave the set of booked pairs
\* unchanged, so check-availability called twice with the same arguments and
\* the same evaluation instant, with no intervening reserve, yields identical
\* results: no step other than a reserve changes the server's time zone or
\* what isSlotBooked answers, the only state check-availability reads.
C22_OnlyReserveChangesStore ==
    [][~ReserveStep => (BookedPairs' = BookedPairs /\ tz' = tz)]_vars

\* C23: no request handler ever releases a slot: once schedule-discovery-call
\* has reserved (date, time), isSlotBooked(date, time) is true in every later
\* state of the running process, also when the booking was made before the
\* MongoDB connection attempt of the listen callback has completed.
C23_ReservedForever ==
    \A r \in Reqs :
        req[r].reserved => isSlotBooked(req[r].date, req[r].time24h, TRUE)

\* C24: the instant that check-availability (isFuture) and available-slots
\* (isPast) compare against now is the instant that schedule-discovery-call
\* sends to the provider as the meeting start of the same date and time,
\* whatever the server's local time zone is.
C24_SameInstant ==
    \A r \in Reqs :
        Accepted(r)
        => /\ (/\ resp.kind = "check-availability"
               /\ resp.date = req[r].date /\ resp.time24h = req[r].time24h)
              => (resp.isFuture <=> req[r].startTime > resp.now)
           /\ (/\ resp.kind = "available-slots" /\ ~resp.closed
               /\ resp.date = req[r].date)
              => \A i \in 1..Len(resp.slots) :
                    resp.slots[i].time = req[r].time24h
                    => (resp.slots[i].reason = "Past time slot"
                           <=> req[r].startTime <= resp.now)

\* C26: for every weekday date, every slot time t that available-slots
\* generates, every store state and the same evaluation instant, the
\* available flag that available-slots reports for t equals the one that
\* check-availability returns for (date, t), and both endpoints report the
\* same dayOfWeek for the date.
C26_ListingAgreesWithCheck ==
    (resp.kind = "available-slots" /\ ~IsWeekend(resp.date))
    => /\ ~resp.closed
       /\ \A i \in 1..18 :
             \E check \in {checkAvailabilityResponse(resp.date,
                               slotTimeOf(SlotClock(i)[1], SlotClock(i)[2]),
                               SlotClock(i), resp.now,
                               slotTimeOf(SlotClock(i)[1], SlotClock(i)[2]),
                               resp.slots[i].isBooked)} :
                /\ resp.dayOfWeek = check.dayOfWeek
                /\ resp.slots[i].time = check.time24h
                /\ resp.slots[i].available = check.available

\* C27: schedule-discovery-call rejects a request with the weekday or
\* business-hours 400 error if and only if check-availability for the same
\* date and time (12-hour or 24-hour form) reports isWeekday=false or
\* isBusinessHours=false; no request that check-availability classifies as
\* outside weekdays or business hours reaches meeting creation.
C27_SameClassification ==
    \A r \in Reqs :
        (/\ req[r].pc # "idle"
         /\ resp.kind = "check-availability"
         /\ resp.date = req[r].date /\ resp.time = req[r].time)
        => /\ (req[r].status = 400 /\ req[r].error \in {"NotAWeekday", "OutsideBusinessHours"})
                 <=> (~resp.isWeekday \/ ~resp.isBusinessHours)
           /\ (~resp.isWeekday \/ ~resp.isBusinessHours)
                 => req[r].meeting = "none" /\ req[r].pc = "done"

\* C27 witness: a request for Monday "9:00 AM" reached meeting creation and
\* check-availability classifies the same date and time as bookable hours
C27_Witness ==
    /\ req[1].pc = "done"
    /\ req[1].status = 200
    /\ req[1].time = formatTimeForEmail(slotTimeOf(9, 0))
    /\ resp.kind = "check-availability"
    /\ resp.date = req[1].date /\ resp.time = req[1].time
    /\ resp.isWeekday /\ resp.isBusinessHours

\* the pairs held by the Slot Store, in the collection or in the map
StoredPairs ==
    BagToSet(mongoDocs)
    \cup UNION {{<<d, t>> : t \in globalBookedSlots.map[d]} :
                   d \in DOMAIN globalBookedSlots.map}

\* C25: every (date, time) pair present in the Slot Store after any sequence
\* of accepted schedule-discovery-call requests is a slot that
\* available-slots enumerates for that date: the date is a weekday and the
\* time is one of 09:00, 09:30, ..., 17:30 in zero-padded HH:MM form.
C25_StoredPairsAreSlots ==
    \A p \in StoredPairs :
        /\ ~IsWeekend(p[1])
        /\ p[2] \in {slotTimeOf(SlotClock(i)[1], SlotClock(i)[2]) : i \in 1..18}

\* the number of entries of results for the recipient
TimesNotified(results, recipient) ==
    Cardinality({i \in 1..Len(results) : results[i].recipient = recipient})

\* the number of entries of results of the type for the recipient
TimesNotifiedAs(results, recipient, type) ==
    Cardinality({i \in 1..Len(results) :
                    results[i].recipient = recipient /\ results[i].type = type})

Successful(r) == req[r].pc = "done" /\ req[r].status = 200

\* C29: in every successful schedule-discovery-call each distinct recipient
\* is notified exactly once: no address has two entries in emailResults,
\* whatever roles (requester, guest, organizer, admin) it holds.
C29_EachRecipientOnce ==
    \A r \in Reqs :
        Successful(r)
        => \A i \in 1..Len(req[r].emailResults) :
              TimesNotified(req[r].emailResults, req[r].emailResults[i].recipient) = 1

\* C29 (amended): in every successful schedule-discovery-call each distinct
\* recipient is notified exactly once in each role it holds: the requester
\* gets exactly one confirmation even when their address also appears in
\* guestEmails, each distinct guest address gets exactly one confirmation,
\* the organizer gets exactly one organizer notification, the admin
\* notification is sent if and only if the admin address differs from the
\* organizer address, and emailResults has exactly one entry per notification.
C29_OncePerRole ==
    \A r \in Reqs :
        Successful(r)
        => \E results \in {req[r].emailResults} :
           \E guests \in {{req[r].guestEmails[i] : i \in 1..Len(req[r].guestEmails)}
                            \ {RequesterEmail}} :
              /\ TimesNotifiedAs(results, RequesterEmail, "confirmation") = 1
              /\ \A g \in guests : TimesNotifiedAs(results, g, "confirmation") = 1
              /\ \A i \in 1..Len(results) :
                    results[i].type = "confirmation"
                    => results[i].recipient \in guests \cup {RequesterEmail}
              /\ TimesNotifiedAs(results, OrganizerEmail, "organizer_notification") = 1
              /\ Cardinality({i \in 1..Len(results) :
                                 results[i].type = "admin_notification"})
                    = IF env.ADMIN_EMAIL # OrganizerEmail THEN 1 ELSE 0
              /\ TimesNotifiedAs(results, env.ADMIN_EMAIL, "admin_notification")
                    = IF env.ADMIN_EMAIL # OrganizerEmail THEN 1 ELSE 0
              /\ Len(results) = 1 + Cardinality(guests) + 1
                                  + IF env.ADMIN_EMAIL # OrganizerEmail THEN 1 ELSE 0

\* C29 witness: a successful call whose guestEmails repeat a guest and name
\* the requester, answered with one entry each for the requester, the guest,
\* the organizer and the admin
C29_Witness ==
    /\ Successful(1)
    /\ req[1].guestEmails = <<GuestEmail, RequesterEmail, GuestEmail>>
    /\ env.ADMIN_EMAIL # OrganizerEmail
    /\ Len(req[1].emailResults) = 4
    /\ req[1].emailResults[2].recipient = GuestEmail

\* C28: createTeamsMeeting with a real token tries its five approaches
\* strictly in the order 1 to 5: approach k+1 is attempted only after
\* approach k has failed, no approach is attempted after one has succeeded,
\* at most one meeting is created per call, and the result of the first
\* successful approach is the one returned.
C28_ApproachesInOrder ==
    (resp.kind = "createTeamsMeeting" /\ resp.token # "mock-token")
    => /\ Len(resp.attempted) <= LastApproach
       /\ \A i \in 1..Len(resp.attempted) : resp.attempted[i] = i
       /\ \A i \in 1..(Len(resp.attempted) - 1) : ~resp.outcomes[i]
       /\ resp.pc = "approach"
             => /\ resp.next = Len(resp.attempted) + 1
                /\ \A i \in 1..Len(resp.attempted) : ~resp.outcomes[i]
       /\ Len(resp.created) <= 1
       /\ resp.pc = "returned"
             => IF \E i \in 1..Len(resp.outcomes) : resp.outcomes[i]
                THEN /\ resp.source = "provider"
                     /\ resp.meetingResponse \in 1..Len(resp.outcomes)
                     /\ resp.outcomes[resp.meetingResponse]
                     /\ \A i \in 1..(resp.meetingResponse - 1) : ~resp.outcomes[i]
                     /\ resp.created = <<resp.meetingResponse>>
                ELSE resp.source = "fallback" /\ resp.created = <<>>

\* C28 witness: approaches 1 and 2 failed, approach 3 succeeded and its
\* meeting was returned
C28_Witness ==
    /\ resp.kind = "createTeamsMeeting"
    /\ resp.pc = "returned"
    /\ resp.attempted = <<1, 2, 3>>
    /\ resp.outcomes = <<FALSE, FALSE, TRUE>>
    /\ resp.meetingResponse = 3
    /\ resp.source = "provider"

\* the number of answers the handler gave to request r
Responses(r) ==
    Cardinality({i \in 1..Len(req[r].log) : req[r].log[i] = "respond"})

====
